---- MODULE Spec2Model ----
(***************************************************************************)
(* A model of glassfibre/preprocessing.py: the small-shape pruning of      *)
(* boundary geometries, the boundary / population pipeline over the        *)
(* processed-results file tree, the zonal population aggregation and the   *)
(* manufacturing LCA sum.                                                  *)
(*                                                                         *)
(* Areas are fixed-point numbers in units of 0.001 square degrees, so the  *)
(* thresholds 0.001, 0.01, 0.1 and 50 of the source are 1, 10, 100 and     *)
(* 50000.  Raster cell values are fixed-point numbers in units of          *)
(* 1/Scale, so that a sum need not be a whole number.                      *)
(***************************************************************************)
EXTENDS Integers, Sequences, FiniteSets, TLC

VARIABLES
    x,              \* remove_small_shapes: the row (GID_0, geometry) it is applied to
    shape_out,      \* remove_small_shapes: the geometry returned
    shape_pc,       \* "ready" before the call, "done" after, "off" in other specifications
    fs,             \* the files under results/: path -> content
    dirs,           \* the directories under results/
    gadm,           \* data/raw/boundaries/gadm36_<level>.shp: level -> rows
    pop_tiff,       \* the global population raster self.pop_tiff: cell -> value
    gid_level,      \* ProcessRegions.gid_level
    gid_region,     \* ProcessPopulation.gid_region
    call,           \* the operation in progress, "none" between calls
    last,           \* how the last call ended: [op, result, error]
    printed,        \* what the call in progress (or the last one) has printed
    regional_level, \* process_regions: the loop variable
    countries,      \* process_sub_region_boundaries: the rows read
    gid,            \* process_sub_region_boundaries: the id column chosen
    index,          \* process_sub_region_boundaries: the position in countries
    boundaries,     \* process_population_tif: the rows read
    idx,            \* process_population_tif: the position in boundaries
    output,         \* process_population_tif: the records appended, and returned
    weights,        \* glassfibre.inputs.weights: phase -> material -> kg
    carbon_factors, \* glassfibre.inputs.carbon_factors: phase -> material -> kg CO2e per kg
    mfg_emission_dict, \* lca_manufacturing: the dictionary returned
    lca_pc,         \* "ready" before the call, "done" after, "off" in other specifications
    lca_returned    \* the LCA function called last in the pipeline and what it returned

shape_vars == <<x, shape_out, shape_pc>>

pipe_vars == <<fs, dirs, gadm, pop_tiff, gid_level, gid_region, call, last, printed,
               regional_level, countries, gid, index, boundaries, idx, output>>

lca_vars == <<weights, carbon_factors, mfg_emission_dict, lca_pc, lca_returned>>

vars == <<shape_vars, pipe_vars, lca_vars>>

----------------------------------------------------------------------------
(* Bounds of the model *)

\* the largest number of parts of a MultiPolygon
MaxParts == 3

\* the deepest regional level a ProcessRegions / ProcessPopulation is built for
MaxGidLevel == 2

\* the number of sub-regions the country has at each regional level
NumRegions == 2

\* the largest number of rows of a regions file given to process_population_tif
MaxRows == 2

\* raster cell values are counted in units of 1/Scale
Scale == 2

\* the carbon factors are a table of distinct factors times 1..MaxFactor
MaxFactor == 2

----------------------------------------------------------------------------
(* remove_small_shapes *)

\* minimum total area of a MultiPolygon that is pruned: 0.01
area1 == 10

\* total area above which the high threshold applies: 50
area2 == 50000

\* the country codes the source tests for, and one it does not
GidValues == {"CHL", "IDN", "RUS", "GRL", "CAN", "USA", "KEN"}

\* part areas: below, at and above each of the thresholds 0.001, 0.01, 0.1
\* and one part of area 50
AreaValues == {1, 2, 5, 10, 11, 100, 101, 50000}

\* the parts of a geometry: part i of the input carries id i; a part has an
\* area and the raster cells it covers (none here: no raster is involved)
PartSeqs(n) ==
    { [i \in 1..n |-> [id |-> i, area |-> f[i], cells |-> {}]] :
        f \in [1..n -> AreaValues] }

Geometries ==
    { [type |-> "Polygon", geoms |-> g] : g \in PartSeqs(1) }
    \cup { [type |-> "MultiPolygon", geoms |-> g] :
             g \in UNION { PartSeqs(n) : n \in 0..MaxParts } }
    \cup { [type |-> "LineString", geoms |-> << >>] }

\* the value of a call that falls off the end of the function
None == [type |-> "None", geoms |-> << >>]

RECURSIVE SumAreas(_)
SumAreas(g) == IF g = << >> THEN 0 ELSE g[1].area + SumAreas(Tail(g))

\* shapely's geometry.area: the sum of the areas of the parts
Area(geometry) == SumAreas(geometry.geoms)

\* the threshold chosen for a MultiPolygon row that is pruned
Threshold(row) ==
    IF row.GID_0 \in {"CHL", "IDN"} THEN 10
    ELSE IF row.GID_0 \in {"RUS", "GRL", "CAN", "USA"} THEN 10
    ELSE IF Area(row.geometry) > area2 THEN 100
    ELSE 1

\* new_geom with the comparison y.area >= threshold
RECURSIVE new_geom_ge(_, _)
new_geom_ge(g, threshold) ==
    IF g = << >> THEN << >>
    ELSE IF g[1].area >= threshold
         THEN <<g[1]>> \o new_geom_ge(Tail(g), threshold)
         ELSE new_geom_ge(Tail(g), threshold)

\* the loop over the parts: a part is kept when its area exceeds the threshold
RECURSIVE new_geom(_, _)
new_geom(g, threshold) ==
    IF g = << >> THEN << >>
    ELSE IF g[1].area > threshold
         THEN <<g[1]>> \o new_geom(Tail(g), threshold)
         ELSE new_geom(Tail(g), threshold)

\* remove_small_shapes without the early return for a small total area
remove_small_shapes_no_area1(row) ==
    IF row.geometry.type = "Polygon" THEN row.geometry
    ELSE IF row.geometry.type = "MultiPolygon"
         THEN [type |-> "MultiPolygon",
               geoms |-> new_geom(row.geometry.geoms, Threshold(row))]
         ELSE None

remove_small_shapes(row) ==
    IF row.geometry.type = "Polygon" THEN row.geometry
    ELSE IF row.geometry.type = "MultiPolygon"
         THEN IF Area(row.geometry) < area1 THEN row.geometry
              ELSE [type |-> "MultiPolygon",
                    geoms |-> new_geom(row.geometry.geoms, Threshold(row))]
         ELSE None

----------------------------------------------------------------------------
(* The file tree, the raw inputs and the rows of a boundary layer *)

\* self.country_iso3
country_iso3 == "KEN"

\* the cells of the population raster
Cells == {1, 2, 3}

\* hazard.nodata = 255, and the nodata argument of zonal_stats
nodata == 255 * Scale

\* the files the operations read and write
NationalOutline == <<"national_outline.shp", 0>>
RegionsShp(level) == <<"regions.shp", level>>
BoundaryShp(id) == <<"boundaries.shp", id>>
NationalTif == <<"ppp_2020_1km_Aggregated.tif", 0>>
PopulationCsv == <<"population_results.csv", 0>>

\* file f written (created or replaced) at path with content
Write(f, path, content) ==
    [p \in DOMAIN f \cup {path} |-> IF p = path THEN content ELSE f[p]]

NoFiles == [p \in {} |-> << >>]

\* a row of the layer of a regional level: GADM's level 0 carries GID_0,
\* level 1 adds NAME_1 and GID_1, the levels from 2 on add GID_2
GadmRow(level, iso, i, geometry) ==
    IF level = 0 THEN [GID_0 |-> iso, geometry |-> geometry]
    ELSE IF level = 1
         THEN [GID_0 |-> iso, NAME_1 |-> i, GID_1 |-> i, geometry |-> geometry]
         ELSE [GID_0 |-> iso, NAME_1 |-> i, GID_1 |-> i, GID_2 |-> 10 * i + 1,
               geometry |-> geometry]

\* the cells a geometry covers
Cover(geometry) ==
    UNION { geometry.geoms[i].cells : i \in 1..Len(geometry.geoms) }

\* the national outline: a mainland over cells 1 and 2 and an islet over cell 3
NationalGeometry ==
    [type |-> "MultiPolygon",
     geoms |-> << [id |-> 1, area |-> 50000, cells |-> {1, 2}],
                  [id |-> 2, area |-> 1, cells |-> {3}] >>]

\* sub-region i: one part over a cell and a fragment covering no cell centre
RegionGeometry(i) ==
    [type |-> "MultiPolygon",
     geoms |-> << [id |-> 1, area |-> 500, cells |-> {((i - 1) % 3) + 1}],
                  [id |-> 2, area |-> 1, cells |-> {}] >>]

\* the global layers: the country's rows followed by a row of another country
GadmLayer(level) ==
    IF level = 0
    THEN << GadmRow(0, country_iso3, 0, NationalGeometry),
            GadmRow(0, "UGA", 0, NationalGeometry) >>
    ELSE [i \in 1..(NumRegions + 1) |->
            IF i <= NumRegions
            THEN GadmRow(level, country_iso3, i, RegionGeometry(i))
            ELSE GadmRow(level, "UGA", i, RegionGeometry(i))]

\* countries[countries.GID_0 == self.country_iso3]
RECURSIVE FilterCountry(_)
FilterCountry(rows) ==
    IF rows = << >> THEN << >>
    ELSE IF rows[1].GID_0 = country_iso3
         THEN <<rows[1]>> \o FilterCountry(Tail(rows))
         ELSE FilterCountry(Tail(rows))

\* geometry.simplify moves vertices; the parts and the cells they cover stay
simplify(geometry) == geometry

\* df['geometry'] = df.geometry.simplify(...), then
\* df['geometry'] = df.apply(remove_small_shapes, axis = 1)
PruneLayer(rows) ==
    [k \in 1..Len(rows) |->
        [rows[k] EXCEPT !.geometry =
            remove_small_shapes([rows[k] EXCEPT !.geometry = simplify(@)])]]

----------------------------------------------------------------------------
(* How a call ends *)

NoCall == [op |-> "none", result |-> "none", error |-> "none"]

Return(op) ==
    /\ call' = "none"
    /\ last' = [op |-> op, result |-> "returned", error |-> "none"]

Raise(op, error) ==
    /\ call' = "none"
    /\ last' = [op |-> op, result |-> "raised", error |-> error]

regions_locals == <<regional_level>>
sub_locals == <<countries, gid, index>>
pop_locals == <<boundaries, idx, output>>
inputs == <<gadm, pop_tiff, gid_level, gid_region>>

----------------------------------------------------------------------------
(* ProcessCountry.process_country_shapes *)

process_country_shapes ==
    /\ call = "none"
    /\ \E ok \in BOOLEAN :
         LET single_country == PruneLayer(FilterCountry(gadm[0]))
             start == IF NationalOutline \in DOMAIN fs
                      THEN << <<"Completed national outline processing", 0>>,
                              <<"Processing country shapes", 0>> >>
                      ELSE << <<"Processing country shapes", 0>> >>
         IN  /\ dirs' = dirs \cup {"country"}
             /\ IF ok
                THEN /\ fs' = Write(fs, NationalOutline, single_country)
                     /\ printed' = Append(start,
                            <<"National outline shapefile processing completed", 0>>)
                     /\ Return("process_country_shapes")
                ELSE /\ fs' = fs
                     /\ printed' = start
                     /\ Raise("process_country_shapes", "write")
    /\ UNCHANGED <<shape_vars, lca_vars, inputs, regions_locals, sub_locals, pop_locals>>

----------------------------------------------------------------------------
(* ProcessRegions.process_regions *)

process_regions_call ==
    /\ call = "none"
    /\ call' = "process_regions"
    /\ regional_level' = 1
    /\ printed' = << >>
    /\ UNCHANGED <<shape_vars, lca_vars, inputs, fs, dirs, last, sub_locals, pop_locals>>

\* the except branch printing and then raising the failure again
to_file_except_reraise(level) ==
    /\ printed' = Append(Append(printed, <<"Processing region shapes", level>>),
                         <<"Unable to write", level>>)
    /\ regional_level' = 0
    /\ fs' = fs
    /\ Raise("process_regions", "write")

\* regions.to_file failed: the except branch prints and passes
to_file_except(level) ==
    /\ printed' = Append(Append(printed, <<"Processing region shapes", level>>),
                         <<"Unable to write", level>>)
    /\ regional_level' = level + 1
    /\ fs' = fs
    /\ UNCHANGED <<call, last>>

\* the loop body without the test for an existing output
process_regions_level_no_skip ==
    /\ call = "process_regions"
    /\ regional_level <= gid_level
    /\ IF "regions" \notin dirs /\ "country" \notin dirs
       THEN /\ printed' = Append(printed, <<"Processing region shapes", regional_level>>)
            /\ regional_level' = 0
            /\ Raise("process_regions", "mkdir")
            /\ UNCHANGED <<fs, dirs>>
       ELSE /\ dirs' = dirs \cup {"regions"}
            /\ \E ok \in BOOLEAN :
                 IF ok
                 THEN /\ fs' = Write(fs, RegionsShp(regional_level),
                                     PruneLayer(FilterCountry(gadm[regional_level])))
                      /\ printed' = Append(printed,
                                        <<"Processing region shapes", regional_level>>)
                      /\ regional_level' = regional_level + 1
                      /\ UNCHANGED <<call, last>>
                 ELSE to_file_except(regional_level)
    /\ UNCHANGED <<shape_vars, lca_vars, inputs, sub_locals, pop_locals>>

process_regions_level ==
    /\ call = "process_regions"
    /\ regional_level <= gid_level
    /\ IF RegionsShp(regional_level) \in DOMAIN fs
       THEN \* continue
            /\ regional_level' = regional_level + 1
            /\ UNCHANGED <<fs, dirs, call, last, printed>>
       ELSE IF "regions" \notin dirs /\ "country" \notin dirs
       THEN \* os.mkdir(folder) finds no parent directory
            /\ printed' = Append(printed, <<"Processing region shapes", regional_level>>)
            /\ regional_level' = 0
            /\ Raise("process_regions", "mkdir")
            /\ UNCHANGED <<fs, dirs>>
       ELSE /\ dirs' = dirs \cup {"regions"}
            /\ \E ok \in BOOLEAN :
                 IF ok
                 THEN /\ fs' = Write(fs, RegionsShp(regional_level),
                                     PruneLayer(FilterCountry(gadm[regional_level])))
                      /\ printed' = Append(printed,
                                        <<"Processing region shapes", regional_level>>)
                      /\ regional_level' = regional_level + 1
                      /\ UNCHANGED <<call, last>>
                 ELSE to_file_except(regional_level)
    /\ UNCHANGED <<shape_vars, lca_vars, inputs, sub_locals, pop_locals>>

process_regions_return ==
    /\ call = "process_regions"
    /\ regional_level > gid_level
    /\ regional_level' = 0
    /\ Return("process_regions")
    /\ UNCHANGED <<shape_vars, lca_vars, inputs, fs, dirs, printed, sub_locals, pop_locals>>

----------------------------------------------------------------------------
(* ProcessRegions.process_sub_region_boundaries *)

process_sub_region_boundaries_call ==
    /\ call = "none"
    /\ printed' = << >>
    /\ IF RegionsShp(2) \in DOMAIN fs
       THEN /\ countries' = fs[RegionsShp(2)]
            /\ gid' = "GID_2"
            /\ index' = 1
            /\ call' = "process_sub_region_boundaries"
            /\ UNCHANGED last
       ELSE IF RegionsShp(1) \in DOMAIN fs
       THEN /\ countries' = fs[RegionsShp(1)]
            /\ gid' = "GID_1"
            /\ index' = 1
            /\ call' = "process_sub_region_boundaries"
            /\ UNCHANGED last
       ELSE \* gpd.read_file(region_path_2) finds no file
            /\ Raise("process_sub_region_boundaries", "read")
            /\ UNCHANGED sub_locals
    /\ UNCHANGED <<shape_vars, lca_vars, inputs, fs, dirs, regions_locals, pop_locals>>

process_sub_region_boundaries_row ==
    /\ call = "process_sub_region_boundaries"
    /\ index <= Len(countries)
    /\ dirs' = dirs \cup {"country", "boundaries"}
    /\ \E ok \in BOOLEAN :
         IF ok
         THEN /\ fs' = Write(fs, BoundaryShp(countries[index][gid]),
                             <<countries[index]>>)
              /\ index' = index + 1
              /\ UNCHANGED <<call, last, countries, gid>>
         ELSE \* sub_region_shapefile.to_file raises: nothing catches it
              /\ fs' = fs
              /\ countries' = << >>
              /\ gid' = ""
              /\ index' = 0
              /\ Raise("process_sub_region_boundaries", "write")
    /\ UNCHANGED <<shape_vars, lca_vars, inputs, printed, regions_locals, pop_locals>>

process_sub_region_boundaries_return ==
    /\ call = "process_sub_region_boundaries"
    /\ index > Len(countries)
    /\ countries' = << >>
    /\ gid' = ""
    /\ index' = 0
    /\ Return("process_sub_region_boundaries")
    /\ UNCHANGED <<shape_vars, lca_vars, inputs, fs, dirs, printed, regions_locals, pop_locals>>

----------------------------------------------------------------------------
(* ProcessPopulation.process_national_population *)

\* rasterio.mask.mask(hazard, coords, crop = True): the cells outside the
\* shape are filled with the raster's nodata value
mask(raster, geometry) ==
    [c \in Cells |-> IF c \in Cover(geometry) THEN raster[c] ELSE nodata]

process_national_population ==
    /\ call = "none"
    /\ IF NationalOutline \notin DOMAIN fs
       THEN \* gpd.read_file(path_in) finds no file
            /\ printed' = << >>
            /\ Raise("process_national_population", "read")
            /\ UNCHANGED <<fs, dirs>>
       ELSE IF Cover(fs[NationalOutline][1].geometry) = {}
       THEN \* mask: the shape overlaps no cell of the raster
            /\ printed' = << >>
            /\ Raise("process_national_population", "mask")
            /\ UNCHANGED <<fs, dirs>>
       ELSE /\ dirs' = dirs \cup {"country", "population_national"}
            /\ \E ok \in BOOLEAN :
                 IF ok
                 THEN /\ fs' = Write(fs, NationalTif,
                                     mask(pop_tiff, fs[NationalOutline][1].geometry))
                      /\ printed' = << <<"Population processing completed", 0>> >>
                      /\ Return("process_national_population")
                 ELSE /\ fs' = fs
                      /\ printed' = << >>
                      /\ Raise("process_national_population", "write")
    /\ UNCHANGED <<shape_vars, lca_vars, inputs, regions_locals, sub_locals, pop_locals>>

----------------------------------------------------------------------------
(* ProcessPopulation.process_population_tif *)

\* the sum of zonal_stats over no valid cell
NoSum == [null |-> TRUE, v |-> 0]

Number(v) == [null |-> FALSE, v |-> v]

\* the assignment array[array <= 0] = 0 left out
clamp_omitted(array) == array

\* array[array <= 0] = 0
clamp(array) == [c \in Cells |-> IF array[c] <= 0 THEN 0 ELSE array[c]]

RECURSIVE SumCells(_, _)
SumCells(cells, array) ==
    IF cells = {} THEN 0
    ELSE LET c == CHOOSE c \in cells : TRUE
         IN  array[c] + SumCells(cells \ {c}, array)

\* zonal_stats summing every cell of the geometry, nodata cells included
zonal_sum_unmasked(geometry, array) ==
    IF Cover(geometry) = {} THEN NoSum
    ELSE Number(SumCells(Cover(geometry), array))

\* zonal_stats(geometry, array, nodata = 255, stats = ['sum'])[0]['sum']:
\* the cells of the geometry equal to nodata are masked; the sum is None
\* when no cell is left
zonal_sum(geometry, array) ==
    LET valid == { c \in Cover(geometry) : array[c] # nodata }
    IN  IF valid = {} THEN NoSum ELSE Number(SumCells(valid, array))

\* the record with the fallback id column tried first
population_record_fallback_first(boundary, population) ==
    IF {"GID_0", "NAME_1", "GID_1"} \subseteq DOMAIN boundary
    THEN << [iso3 |-> boundary.GID_0, region |-> boundary.NAME_1,
             GID_1 |-> boundary.GID_1, population |-> population,
             geometry |-> boundary.geometry] >>
    ELSE << >>

\* the try / except around output.append: the dictionary is built before it
\* is appended, so a KeyError for 'GID_2' appends nothing and the except
\* branch appends the record with boundary['GID_1']; a KeyError there
\* propagates (no record)
population_record(boundary, population) ==
    IF {"GID_0", "NAME_1", "GID_2"} \subseteq DOMAIN boundary
    THEN << [iso3 |-> boundary.GID_0, region |-> boundary.NAME_1,
             GID_1 |-> boundary.GID_2, population |-> population,
             geometry |-> boundary.geometry] >>
    ELSE IF {"GID_0", "NAME_1", "GID_1"} \subseteq DOMAIN boundary
    THEN << [iso3 |-> boundary.GID_0, region |-> boundary.NAME_1,
             GID_1 |-> boundary.GID_1, population |-> population,
             geometry |-> boundary.geometry] >>
    ELSE << >>

\* df.dropna(subset = ['population']) left out
dropna_omitted(records) == records

\* df.dropna(subset = ['population'])
RECURSIVE dropna(_)
dropna(records) ==
    IF records = << >> THEN << >>
    ELSE IF records[1].population.null
         THEN dropna(Tail(records))
         ELSE <<records[1]>> \o dropna(Tail(records))

\* astype(int) of a float: the fraction is cut off, towards zero
astype_int(v) ==
    IF v >= 0 THEN (v \div Scale) * Scale ELSE 0 - (((0 - v) \div Scale) * Scale)

\* the rows of the CSV: dropna, then the population column as integers
csv_rows(records) ==
    LET df == dropna(records)
    IN  [k \in 1..Len(df) |->
            [df[k] EXCEPT !.population = Number(astype_int(df[k].population.v))]]

\* the call reading the raw layer of the level when the processed regions
\* file is missing
process_population_tif_call_reads_raw ==
    /\ call = "none"
    /\ boundaries' = IF RegionsShp(gid_region) \in DOMAIN fs
                     THEN fs[RegionsShp(gid_region)]
                     ELSE FilterCountry(gadm[gid_region])
    /\ output' = << >>
    /\ idx' = 1
    /\ printed' = << <<"Working on", 0>> >>
    /\ call' = "process_population_tif"
    /\ UNCHANGED last
    /\ UNCHANGED <<shape_vars, lca_vars, inputs, fs, dirs, regions_locals, sub_locals>>

process_population_tif_call ==
    /\ call = "none"
    /\ IF RegionsShp(gid_region) \notin DOMAIN fs
       THEN \* gpd.read_file(path_regions) finds no file
            /\ printed' = << >>
            /\ Raise("process_population_tif", "read")
            /\ UNCHANGED pop_locals
       ELSE /\ boundaries' = fs[RegionsShp(gid_region)]
            /\ output' = << >>
            /\ idx' = 1
            /\ printed' = << <<"Working on", 0>> >>
            /\ call' = "process_population_tif"
            /\ UNCHANGED last
    /\ UNCHANGED <<shape_vars, lca_vars, inputs, fs, dirs, regions_locals, sub_locals>>

process_population_tif_row ==
    /\ call = "process_population_tif"
    /\ idx <= Len(boundaries)
    /\ IF NationalTif \notin DOMAIN fs
       THEN \* rasterio.open(path_raster) finds no file
            /\ boundaries' = << >>
            /\ idx' = 0
            /\ Raise("process_population_tif", "read")
            /\ UNCHANGED output
       ELSE \E raises \in BOOLEAN :
            LET array == clamp(fs[NationalTif])
                population == zonal_sum(boundaries[idx].geometry, array)
                record == population_record(boundaries[idx], population)
            IN  IF boundaries[idx].geometry.geoms = << >> /\ raises
                THEN \* a geometry without parts (as remove_small_shapes can
                     \* return): zonal_stats or centroid.x may raise, or
                     \* else no cell is covered
                     /\ boundaries' = << >>
                     /\ idx' = 0
                     /\ Raise("process_population_tif", "geometry")
                     /\ UNCHANGED output
                ELSE IF record = << >>
                THEN /\ boundaries' = << >>
                     /\ idx' = 0
                     /\ Raise("process_population_tif", "KeyError")
                     /\ UNCHANGED output
                ELSE /\ output' = output \o record
                     /\ idx' = idx + 1
                     /\ UNCHANGED <<boundaries, call, last>>
    /\ UNCHANGED <<shape_vars, lca_vars, inputs, fs, dirs, printed, regions_locals, sub_locals>>

process_population_tif_return ==
    /\ call = "process_population_tif"
    /\ idx > Len(boundaries)
    /\ boundaries' = << >>
    /\ idx' = 0
    /\ IF output = << >>
       THEN \* the DataFrame of no record has no 'population' column: dropna raises
            /\ Raise("process_population_tif", "KeyError")
            /\ UNCHANGED <<fs, dirs>>
       ELSE /\ dirs' = dirs \cup {"final_population"}
            /\ \E ok \in BOOLEAN :
                 IF ok
                 THEN /\ fs' = Write(fs, PopulationCsv, csv_rows(output))
                      /\ Return("process_population_tif")
                 ELSE /\ fs' = fs
                      /\ Raise("process_population_tif", "write")
    /\ UNCHANGED <<shape_vars, lca_vars, inputs, printed, output, regions_locals, sub_locals>>

----------------------------------------------------------------------------
(* lca_manufacturing *)

\* the materials lca_manufacturing reads from weights['manufacturing']
WeightKeys ==
    {"fiber_cable_per_km_kg", "pcb_kg", "aluminium_bru_kg", "copper_antenna_kg",
     "aluminium_antenna_kg", "pvc_antenna_kg", "iron_antenna_kg",
     "steel_antenna_kg", "aluminium_frame_kg", "concrete_kg",
     "aluminium_device_kg"}

\* a dictionary with no key
EmptyDict == [k \in {} |-> 0]

\* the category totals with the frame's aluminium multiplied by the steel factor
lca_manufacturing_wrong_factor(w, cf) ==
    IF "mfg_emissions" \in DOMAIN cf /\ "manufacturing" \in DOMAIN w
    THEN LET carbon_factor == cf["mfg_emissions"]
             item == w["manufacturing"]
         IN  [aluminium_ghg |->
                  item.aluminium_bru_kg * carbon_factor.aluminium_kg_co2e
                  + item.aluminium_antenna_kg * carbon_factor.aluminium_kg_co2e
                  + item.aluminium_frame_kg * carbon_factor.steel_kg_co2e
                  + item.aluminium_device_kg * carbon_factor.aluminium_kg_co2e,
              optic_fiber_ghg |->
                  item.fiber_cable_per_km_kg * carbon_factor.glass_kg_co2e,
              steel_iron_ghg |->
                  item.iron_antenna_kg * carbon_factor.iron_kg_co2e
                  + item.steel_antenna_kg * carbon_factor.steel_kg_co2e,
              concrete_ghg |-> item.concrete_kg * carbon_factor.concrete_kg_co2e,
              plastics_ghg |->
                  item.pcb_kg * carbon_factor.pcb_kg_co2e
                  + item.pvc_antenna_kg * carbon_factor.pvc_kg_co2e,
              other_metals_ghg |->
                  item.copper_antenna_kg * carbon_factor.copper_kg_co2e,
              lca_phase |-> "manufacturing"]
    ELSE EmptyDict

\* the two loops visit every key and act on 'mfg_emissions' and, within
\* it, on 'manufacturing': each product is taken first, then the products
\* are added into the category totals; lca_phase is the inner loop's key
lca_manufacturing(w, cf) ==
    IF "mfg_emissions" \in DOMAIN cf /\ "manufacturing" \in DOMAIN w
    THEN LET carbon_factor == cf["mfg_emissions"]
             item == w["manufacturing"]
             key == "manufacturing"
             fiber_cable_ghg == item.fiber_cable_per_km_kg * carbon_factor.glass_kg_co2e
             pcb_ghg == item.pcb_kg * carbon_factor.pcb_kg_co2e
             alu_bbu__ghg == item.aluminium_bru_kg * carbon_factor.aluminium_kg_co2e
             cu_antenna_ghg == item.copper_antenna_kg * carbon_factor.copper_kg_co2e
             alu_antenna_ghg == item.aluminium_antenna_kg * carbon_factor.aluminium_kg_co2e
             pvc_ghg == item.pvc_antenna_kg * carbon_factor.pvc_kg_co2e
             iron_ghg == item.iron_antenna_kg * carbon_factor.iron_kg_co2e
             steel_ghg == item.steel_antenna_kg * carbon_factor.steel_kg_co2e
             alu_frame_ghg == item.aluminium_frame_kg * carbon_factor.aluminium_kg_co2e
             concrete_ghg == item.concrete_kg * carbon_factor.concrete_kg_co2e
             alu_device_ghg == item.aluminium_device_kg * carbon_factor.aluminium_kg_co2e
         IN  [aluminium_ghg |-> alu_bbu__ghg + alu_antenna_ghg
                                + alu_frame_ghg + alu_device_ghg,
              optic_fiber_ghg |-> fiber_cable_ghg,
              steel_iron_ghg |-> iron_ghg + steel_ghg,
              concrete_ghg |-> concrete_ghg,
              plastics_ghg |-> pcb_ghg + pvc_ghg,
              other_metals_ghg |-> cu_antenna_ghg,
              lca_phase |-> key]
    ELSE EmptyDict

\* the weights a material may have, in whole units
WeightValues == {1, 2}

\* a table of manufacturing factors, all different, scaled by s
MfgFactors(s) ==
    [glass_kg_co2e |-> 2 * s, pcb_kg_co2e |-> 3 * s, aluminium_kg_co2e |-> 5 * s,
     copper_kg_co2e |-> 7 * s, pvc_kg_co2e |-> 11 * s, iron_kg_co2e |-> 13 * s,
     steel_kg_co2e |-> 17 * s, concrete_kg_co2e |-> 19 * s]

\* the end-of-life and transport tables the other LCA functions read
EoltFactors ==
    [glass_kg_co2e |-> 23, pcb_kg_co2e |-> 29, metals_kg_co2e |-> 31,
     concrete_kg_co2e |-> 37]

TransFactors == [olnu_router_kg_co2e |-> 41]

CarbonFactors(s) ==
    [mfg_emissions |-> MfgFactors(s), eolt_emissions |-> EoltFactors,
     trans_emissions |-> TransFactors]

\* the operational power table lca_operations reads
Operations ==
    [fiber |-> [cpe_power_kwh |-> 43, base_station_pwr_kwh |-> 47,
                terminal_unit_pwr_kwh |-> 53]]

\* lca_eolt: the weights of 'manufacturing' with the end-of-life factors,
\* every metal at metals_kg_co2e and the PVC at pcb_kg_co2e
lca_eolt(w, cf) ==
    IF "eolt_emissions" \in DOMAIN cf /\ "manufacturing" \in DOMAIN w
    THEN LET carbon_factor == cf["eolt_emissions"]
             item == w["manufacturing"]
         IN  [aluminium_ghg |->
                  item.aluminium_bru_kg * carbon_factor.metals_kg_co2e
                  + item.aluminium_antenna_kg * carbon_factor.metals_kg_co2e
                  + item.aluminium_frame_kg * carbon_factor.metals_kg_co2e
                  + item.aluminium_device_kg * carbon_factor.metals_kg_co2e,
              optic_fiber_ghg |->
                  item.fiber_cable_per_km_kg * carbon_factor.glass_kg_co2e,
              steel_iron_ghg |->
                  item.iron_antenna_kg * carbon_factor.metals_kg_co2e
                  + item.steel_antenna_kg * carbon_factor.metals_kg_co2e,
              concrete_ghg |-> item.concrete_kg * carbon_factor.concrete_kg_co2e,
              plastics_ghg |->
                  item.pcb_kg * carbon_factor.pcb_kg_co2e
                  + item.pvc_antenna_kg * carbon_factor.pcb_kg_co2e,
              other_metals_ghg |->
                  item.copper_antenna_kg * carbon_factor.metals_kg_co2e,
              lca_phase |-> "eolt"]
    ELSE EmptyDict

\* lca_trans
lca_trans(cf) ==
    IF "trans_emissions" \in DOMAIN cf
    THEN [optic_fiber_ghg |-> cf["trans_emissions"].olnu_router_kg_co2e,
          lca_phase |-> "trans"]
    ELSE EmptyDict

\* lca_operations: every key of the table overwrites the same four entries
lca_operations(ops) ==
    IF DOMAIN ops = {} THEN EmptyDict
    ELSE LET operation == ops[CHOOSE k \in DOMAIN ops : TRUE]
         IN  [cpe_power |-> operation.cpe_power_kwh,
              base_station_power_kwh |-> operation.base_station_pwr_kwh,
              terminal_unit_pwr_kwh |-> operation.terminal_unit_pwr_kwh,
              lca_phase |-> "ops"]

LcaFunctions == {"lca_manufacturing", "lca_eolt", "lca_trans", "lca_operations"}

\* what the LCA function fn returns: it reads the lookup tables alone
lca_result(fn) ==
    IF fn = "lca_manufacturing" THEN lca_manufacturing(weights, carbon_factors)
    ELSE IF fn = "lca_eolt" THEN lca_eolt(weights, carbon_factors)
    ELSE IF fn = "lca_trans" THEN lca_trans(carbon_factors)
    ELSE lca_operations(Operations)

\* one of the four LCA functions called between the pipeline's operations
call_lca_function ==
    /\ call = "none"
    /\ \E fn \in LcaFunctions :
         /\ lca_returned' = [fn |-> fn, dict |-> lca_result(fn)]
         /\ Return(fn)
    /\ printed' = << >>
    /\ UNCHANGED <<shape_vars, weights, carbon_factors, mfg_emission_dict, lca_pc,
                   inputs, fs, dirs, regions_locals, sub_locals, pop_locals>>

----------------------------------------------------------------------------
(* Specifications *)

ShapesOff ==
    /\ x = [GID_0 |-> country_iso3, geometry |-> None]
    /\ shape_out = None
    /\ shape_pc = "off"

LcaOff ==
    /\ weights = [manufacturing |-> [k \in WeightKeys |-> 1]]
    /\ carbon_factors = CarbonFactors(1)
    /\ mfg_emission_dict = EmptyDict
    /\ lca_pc = "off"
    /\ lca_returned = [fn |-> "none", dict |-> EmptyDict]

PipeIdle ==
    /\ call = "none"
    /\ last = NoCall
    /\ printed = << >>
    /\ regional_level = 0
    /\ countries = << >>
    /\ gid = ""
    /\ index = 0
    /\ boundaries = << >>
    /\ idx = 0
    /\ output = << >>

RawInputs ==
    /\ gadm = [level \in 0..MaxGidLevel |-> GadmLayer(level)]
    /\ pop_tiff = [c \in Cells |-> 10 * Scale]

\* remove_small_shapes applied to one row
InitShapes ==
    /\ x \in { [GID_0 |-> c, geometry |-> g] : c \in GidValues, g \in Geometries }
    /\ shape_out = None
    /\ shape_pc = "ready"
    /\ LcaOff
    /\ PipeIdle
    /\ RawInputs
    /\ fs = NoFiles
    /\ dirs = {}
    /\ gid_level = 1
    /\ gid_region = 1

ApplyRemoveSmallShapes ==
    /\ shape_pc = "ready"
    /\ shape_out' = remove_small_shapes(x)
    /\ shape_pc' = "done"
    /\ UNCHANGED <<x, pipe_vars, lca_vars>>

NextShapes == ApplyRemoveSmallShapes

SpecShapes == InitShapes /\ [][NextShapes]_vars

\* the pipeline over an empty results tree, its operations called in any order
Init ==
    /\ ShapesOff
    /\ LcaOff
    /\ PipeIdle
    /\ RawInputs
    /\ fs = NoFiles
    /\ dirs = {}
    /\ gid_level \in 1..MaxGidLevel
    /\ gid_region \in 1..MaxGidLevel

Next ==
    \/ process_country_shapes
    \/ process_regions_call
    \/ process_regions_level
    \/ process_regions_return
    \/ process_sub_region_boundaries_call
    \/ process_sub_region_boundaries_row
    \/ process_sub_region_boundaries_return
    \/ process_national_population
    \/ process_population_tif_call
    \/ process_population_tif_row
    \/ process_population_tif_return
    \/ call_lca_function

Spec == Init /\ [][Next]_vars

\* process_population_tif over any clipped raster and any rows of the regions
\* file of its level: a level-1 file has no GID_2 column, a level-2 file has
CellValues == {0 - 3, 0, 1, 10 * Scale, nodata}

\* the sets of cells a sub-region polygon may cover
Covers == { {}, {1}, {2, 3}, {1, 2, 3} }

\* the geometries of a regions file: a polygon over some cells, or the
\* MultiPolygon without parts that pruning can leave
RegionGeometries ==
    { [type |-> "Polygon", geoms |-> << [id |-> 1, area |-> 100, cells |-> c] >>] :
        c \in Covers }
    \cup { [type |-> "MultiPolygon", geoms |-> << >>] }

RegionRows(level) ==
    UNION { { [i \in 1..n |-> GadmRow(level, country_iso3, i, f[i])] :
              f \in [1..n -> RegionGeometries] } : n \in 0..MaxRows }

Rasters == [Cells -> CellValues]

InitPop ==
    /\ ShapesOff
    /\ LcaOff
    /\ PipeIdle
    /\ RawInputs
    /\ dirs = {"country", "regions", "population_national"}
    /\ gid_level = 1
    /\ gid_region \in {1, 2}
    /\ \E rows \in RegionRows(gid_region), raster \in Rasters :
         fs \in { Write(Write(NoFiles, RegionsShp(gid_region), rows),
                        NationalTif, raster),
                  Write(NoFiles, RegionsShp(gid_region), rows),
                  Write(NoFiles, NationalTif, raster) }

NextPop ==
    \/ process_population_tif_call
    \/ process_population_tif_row
    \/ process_population_tif_return

SpecPop == InitPop /\ [][NextPop]_vars

\* lca_manufacturing over any weights and a family of factor tables
InitLca ==
    /\ ShapesOff
    /\ PipeIdle
    /\ RawInputs
    /\ fs = NoFiles
    /\ dirs = {}
    /\ gid_level = 1
    /\ gid_region = 1
    /\ weights \in { [manufacturing |-> w] : w \in [WeightKeys -> WeightValues] }
    /\ carbon_factors \in { CarbonFactors(s) : s \in 1..MaxFactor }
    /\ mfg_emission_dict = EmptyDict
    /\ lca_pc = "ready"
    /\ lca_returned = [fn |-> "none", dict |-> EmptyDict]

call_lca_manufacturing ==
    /\ lca_pc = "ready"
    /\ mfg_emission_dict' = lca_manufacturing(weights, carbon_factors)
    /\ lca_pc' = "done"
    /\ UNCHANGED <<weights, carbon_factors, lca_returned, shape_vars, pipe_vars>>

NextLca == call_lca_manufacturing

SpecLca == InitLca /\ [][NextLca]_vars

----------------------------------------------------------------------------
(* Properties of remove_small_shapes, under SpecShapes *)

\* C1: a row whose geometry is a single-part Polygon, or a MultiPolygon of
\* total area strictly below 0.01, gets its input geometry back unchanged,
\* whatever its GID_0 is.
C1_SmallOrSinglePassThrough ==
    (/\ shape_pc = "done"
     /\ \/ x.geometry.type = "Polygon"
        \/ /\ x.geometry.type = "MultiPolygon"
           /\ Area(x.geometry) < 10)
    => shape_out = x.geometry

\* a listed country's MultiPolygon of total area below 0.01 whose parts are
\* all below the country threshold has been returned
C1_Witness ==
    /\ shape_pc = "done"
    /\ x.GID_0 = "USA"
    /\ x.geometry.type = "MultiPolygon"
    /\ Len(x.geometry.geoms) = 2
    /\ Area(x.geometry) < 10
    /\ shape_out = x.geometry

\* the threshold as the claim states it
C2_Threshold(row) ==
    IF row.GID_0 \in {"CHL", "IDN", "RUS", "GRL", "CAN", "USA"} THEN 10
    ELSE IF SumAreas(row.geometry.geoms) > 50000 THEN 100
    ELSE 1

C2_KeptIds(row) ==
    { i \in 1..Len(row.geometry.geoms) :
        row.geometry.geoms[i].area > C2_Threshold(row) }

\* C2: a MultiPolygon row of total area >= 0.01 gets back exactly the parts
\* whose own area is strictly greater than the threshold (0.01 for the six
\* listed countries, else 0.1 when the total area exceeds 50, else 0.001),
\* in their original order; a part whose area equals the threshold is gone.
C2_KeepsPartsAboveThreshold ==
    (/\ shape_pc = "done"
     /\ x.geometry.type = "MultiPolygon"
     /\ Area(x.geometry) >= 10)
    => /\ shape_out.type = "MultiPolygon"
       /\ { shape_out.geoms[j].id : j \in 1..Len(shape_out.geoms) } = C2_KeptIds(x)
       /\ \A j \in 1..Len(shape_out.geoms) :
             /\ shape_out.geoms[j] = x.geometry.geoms[shape_out.geoms[j].id]
             /\ \A k \in 1..Len(shape_out.geoms) :
                   j < k => shape_out.geoms[j].id < shape_out.geoms[k].id

\* a row of a listed country with total area above 50 (the country rule
\* wins over the area rule) loses a part whose area equals the threshold
\* and one between 0.01 and 0.1, and keeps the large one
C2_Witness ==
    /\ shape_pc = "done"
    /\ x.GID_0 = "RUS"
    /\ x.geometry.type = "MultiPolygon"
    /\ Len(x.geometry.geoms) = 3
    /\ x.geometry.geoms[1].area = 10
    /\ x.geometry.geoms[2].area = 50000
    /\ x.geometry.geoms[3].area = 11
    /\ Len(shape_out.geoms) = 2
    /\ shape_out.geoms[1].id = 2
    /\ shape_out.geoms[2].id = 3

\* C3: a Polygon, or a MultiPolygon with at least one part, never comes
\* back without parts.
C3_NeverEmpty ==
    (/\ shape_pc = "done"
     /\ x.geometry.type \in {"Polygon", "MultiPolygon"}
     /\ Len(x.geometry.geoms) >= 1)
    => Len(shape_out.geoms) >= 1

----------------------------------------------------------------------------
(* Properties of process_population_tif, under SpecPop *)

\* the rows of the regions file the call reads, and the clipped raster
PopRows == fs[RegionsShp(gid_region)]
PopRaster == fs[NationalTif]

PopReturned ==
    /\ call = "none"
    /\ last = [op |-> "process_population_tif", result |-> "returned", error |-> "none"]

\* C4: every population value in the population CSV is a non-negative whole
\* number, whatever the raster holds (negative cells, nodata cells,
\* fractions) and whatever the sub-region polygons cover.
C4_CsvPopulationNonNegativeInteger ==
    PopulationCsv \in DOMAIN fs =>
        \A k \in 1..Len(fs[PopulationCsv]) :
            /\ ~ fs[PopulationCsv][k].population.null
            /\ fs[PopulationCsv][k].population.v >= 0
            /\ fs[PopulationCsv][k].population.v % Scale = 0

\* a CSV row written for a polygon over a negative cell, a fractional cell
\* and a nodata cell
C4_Witness ==
    /\ PopReturned
    /\ PopRaster[1] < 0
    /\ PopRaster[2] = 1
    /\ PopRaster[3] = nodata
    /\ Len(PopRows) = 1
    /\ Cover(PopRows[1].geometry) = {1, 2, 3}
    /\ Len(fs[PopulationCsv]) = 1
    /\ fs[PopulationCsv][1].population = Number(0)

\* sub-region i covers no cell that is not nodata
C5_NullSum(i) ==
    \A c \in Cover(PopRows[i].geometry) : PopRaster[c] = 255 * Scale

\* C5: when the call has written the CSV, a sub-region whose zonal sum is
\* null has no row in it and every other sub-region has exactly one.
C5_NullRowsDropped ==
    PopReturned =>
        \A i \in 1..Len(PopRows) :
            Cardinality({ k \in 1..Len(fs[PopulationCsv]) :
                            fs[PopulationCsv][k].region = PopRows[i].NAME_1 })
                = IF C5_NullSum(i) THEN 0 ELSE 1

\* two sub-regions, the first over nodata cells only: the CSV holds the
\* second alone
C5_Witness ==
    /\ PopReturned
    /\ Len(PopRows) = 2
    /\ Cover(PopRows[1].geometry) = {1}
    /\ PopRaster[1] = nodata
    /\ Cover(PopRows[2].geometry) = {2, 3}
    /\ PopRaster[2] = 10 * Scale
    /\ Len(fs[PopulationCsv]) = 1
    /\ fs[PopulationCsv][1].region = PopRows[2].NAME_1

\* the sum as the claim states it: over the covered cells that are not the
\* nodata sentinel, a cell <= 0 counting 0
RECURSIVE C6_Sum(_, _)
C6_Sum(cells, raster) ==
    IF cells = {} THEN 0
    ELSE LET c == CHOOSE c \in cells : TRUE
             value == IF raster[c] = 255 * Scale THEN 0
                      ELSE IF raster[c] <= 0 THEN 0 ELSE raster[c]
         IN  value + C6_Sum(cells \ {c}, raster)

\* C6 as stated: the population of every sub-region polygon equals the sum
\* of the covered cells that are not nodata (255), a cell <= 0 counting 0.
C6_PopulationIsSum ==
    \A k \in 1..Len(output) :
        output[k].population = Number(C6_Sum(Cover(PopRows[k].geometry), PopRaster))

\* C6 as amended: the population equals that sum for every polygon that
\* covers at least one cell that is not nodata; for a polygon that covers
\* none the population is null (None), not 0.
C6_PopulationIsSumOrNull ==
    \A k \in 1..Len(output) :
        output[k].population =
            IF \E c \in Cover(PopRows[k].geometry) : PopRaster[c] # 255 * Scale
            THEN Number(C6_Sum(Cover(PopRows[k].geometry), PopRaster))
            ELSE NoSum

\* a raster whose cells all equal 10 and a polygon covering exactly 2 cells:
\* the population is 20
C6_Witness ==
    /\ PopReturned
    /\ \A c \in Cells : PopRaster[c] = 10 * Scale
    /\ Len(PopRows) = 1
    /\ Cardinality(Cover(PopRows[1].geometry)) = 2
    /\ output[1].population = Number(20 * Scale)

\* C8: the record of every row processed holds, as its 'GID_1', the row's
\* GID_2 when the row has that column and the row's GID_1 otherwise; one
\* record per row, in row order.
C8_RegionIdFallback ==
    /\ call = "process_population_tif" => Len(output) = idx - 1
    /\ PopReturned => Len(output) = Len(PopRows)
    /\ \A k \in 1..Len(output) :
         /\ output[k].region = PopRows[k].NAME_1
         /\ output[k].GID_1 = IF "GID_2" \in DOMAIN PopRows[k]
                              THEN PopRows[k].GID_2
                              ELSE PopRows[k].GID_1

\* two rows of a level-1 file (no GID_2 column): two records, with GID_1
C8_Witness ==
    /\ PopReturned
    /\ Len(PopRows) = 2
    /\ "GID_2" \notin DOMAIN PopRows[1]
    /\ Len(output) = 2
    /\ output[1].GID_1 = PopRows[1].GID_1
    /\ output[2].GID_1 = PopRows[2].GID_1

----------------------------------------------------------------------------
(* Properties of the boundary processor, under Spec *)

Printed(message) == \E k \in 1..Len(printed) : printed[k] = message

\* C9: in process_regions a failed write of level k is caught: the loop goes
\* on to the later levels, the call returns normally having visited each of
\* them, and level k has no output file.
C9_RegionsWriteFailureCaught ==
    \A k \in 1..gid_level :
        Printed(<<"Unable to write", k>>) =>
            /\ RegionsShp(k) \notin DOMAIN fs
            /\ IF call = "process_regions"
               THEN regional_level > k
               ELSE /\ call = "none"
                    /\ last = [op |-> "process_regions", result |-> "returned",
                               error |-> "none"]
                    /\ \A l \in (k + 1)..gid_level :
                         \/ Printed(<<"Processing region shapes", l>>)
                         \/ RegionsShp(l) \in DOMAIN fs

\* the write of level 1 failed, level 2 was written and the call returned
C9_Witness ==
    /\ call = "none"
    /\ last.op = "process_regions"
    /\ last.result = "returned"
    /\ gid_level >= 2
    /\ Printed(<<"Unable to write", 1>>)
    /\ Printed(<<"Processing region shapes", 2>>)
    /\ ~ Printed(<<"Unable to write", 2>>)
    /\ RegionsShp(2) \in DOMAIN fs
    /\ RegionsShp(1) \notin DOMAIN fs

\* C10: a failed shapefile write aborts neither process_country_shapes nor
\* process_sub_region_boundaries.
C10_WriteFailuresNeverAbort ==
    ~ (/\ last.op \in {"process_country_shapes", "process_sub_region_boundaries"}
       /\ last.result = "raised"
       /\ last.error = "write")

----------------------------------------------------------------------------
(* Properties of lca_manufacturing, under SpecLca *)

\* C7: the dictionary lca_manufacturing returns holds, per category, the
\* weighted sum of weights['manufacturing'] with
\* carbon_factors['mfg_emissions'], and the phase tag 'manufacturing'.
C7_ManufacturingTotals ==
    lca_pc = "done" =>
        LET w == weights.manufacturing
            f == carbon_factors.mfg_emissions
        IN  /\ DOMAIN mfg_emission_dict =
                 {"aluminium_ghg", "optic_fiber_ghg", "steel_iron_ghg",
                  "concrete_ghg", "plastics_ghg", "other_metals_ghg", "lca_phase"}
            /\ mfg_emission_dict.aluminium_ghg =
                 (w.aluminium_bru_kg + w.aluminium_antenna_kg
                  + w.aluminium_frame_kg + w.aluminium_device_kg)
                 * f.aluminium_kg_co2e
            /\ mfg_emission_dict.optic_fiber_ghg =
                 w.fiber_cable_per_km_kg * f.glass_kg_co2e
            /\ mfg_emission_dict.steel_iron_ghg =
                 w.iron_antenna_kg * f.iron_kg_co2e
                 + w.steel_antenna_kg * f.steel_kg_co2e
            /\ mfg_emission_dict.concrete_ghg = w.concrete_kg * f.concrete_kg_co2e
            /\ mfg_emission_dict.plastics_ghg =
                 w.pcb_kg * f.pcb_kg_co2e + w.pvc_antenna_kg * f.pvc_kg_co2e
            /\ mfg_emission_dict.other_metals_ghg =
                 w.copper_antenna_kg * f.copper_kg_co2e
            /\ mfg_emission_dict.lca_phase = "manufacturing"

\* the call has returned for weights that differ between the aluminium
\* items: 1 + 2 + 2 + 1 kg at factor 5
C7_Witness ==
    /\ lca_pc = "done"
    /\ weights.manufacturing.aluminium_bru_kg = 1
    /\ weights.manufacturing.aluminium_antenna_kg = 2
    /\ weights.manufacturing.aluminium_frame_kg = 2
    /\ weights.manufacturing.aluminium_device_kg = 1
    /\ carbon_factors.mfg_emissions.aluminium_kg_co2e = 5
    /\ mfg_emission_dict.aluminium_ghg = 30

----------------------------------------------------------------------------
(* Properties of the whole pipeline, under Spec *)

\* the outputs present in the tree have their prerequisites beside them
C11_Files ==
    /\ PopulationCsv \in DOMAIN fs =>
         /\ RegionsShp(gid_region) \in DOMAIN fs
         /\ NationalTif \in DOMAIN fs
    /\ NationalTif \in DOMAIN fs => NationalOutline \in DOMAIN fs

\* what a step that completes an operation finds in the tree
C11_Step ==
    /\ (call = "process_population_tif" /\ call' = "none"
        /\ last'.result = "returned")
       => /\ RegionsShp(gid_region) \in DOMAIN fs
          /\ fs[RegionsShp(gid_region)] = PruneLayer(FilterCountry(gadm[gid_region]))
          /\ NationalTif \in DOMAIN fs
          /\ PopulationCsv \in DOMAIN fs'
    /\ (call = "none" /\ call' = "none"
        /\ last'.op = "process_national_population" /\ last'.result = "returned")
       => /\ NationalOutline \in DOMAIN fs
          /\ NationalTif \in DOMAIN fs'
    /\ (call = "none" /\ call' = "none" /\ last'.op \in LcaFunctions)
       => /\ last'.result = "returned"
          /\ fs' = fs
          /\ dirs' = dirs

\* C11: process_population_tif completes, writing the CSV, only when the
\* regions file of its level written by process_regions and the clipped
\* national raster exist; process_national_population completes only when
\* the national outline exists; an LCA function can be called and returns
\* in every state between operations, whatever files exist, and touches none.
C11_PrerequisitesExist ==
    /\ [](C11_Files /\ (call = "none" => ENABLED call_lca_function))
    /\ [][C11_Step]_vars

\* the CSV has been written, and before it an LCA function returned
C11_Witness ==
    /\ call = "none"
    /\ last = [op |-> "process_population_tif", result |-> "returned", error |-> "none"]
    /\ PopulationCsv \in DOMAIN fs
    /\ NationalTif \in DOMAIN fs
    /\ RegionsShp(gid_region) \in DOMAIN fs
    /\ lca_returned.fn = "lca_trans"

C12_AllLevels == \A l \in 1..gid_level : RegionsShp(l) \in DOMAIN fs

C12_NoWriteFailed == \A l \in 1..gid_level : ~ Printed(<<"Unable to write", l>>)

\* a call of process_regions has ended and nothing was called since
C12_Ended == call = "none" /\ last.op = "process_regions"

\* C12 as stated: when no write fails, every level 1..gid_level has an output
\* file after one call of process_regions.
C12_OneCallWritesEveryLevel ==
    (C12_Ended /\ C12_NoWriteFailed) => C12_AllLevels

C12_Calls ==
    /\ (C12_Ended /\ C12_NoWriteFailed /\ "country" \in dirs)
       => /\ last.result = "returned"
          /\ C12_AllLevels
    /\ (C12_Ended /\ "country" \notin dirs)
       => /\ last = [op |-> "process_regions", result |-> "raised", error |-> "mkdir"]
          /\ \A l \in 1..gid_level : RegionsShp(l) \notin DOMAIN fs
    /\ (C12_Ended /\ printed = << >>)
       => /\ last.result = "returned"
          /\ C12_AllLevels

C12_Step ==
    /\ (call = "none" /\ call' = "process_regions") => regional_level' = 1
    /\ (call = "process_regions" /\ call' = "process_regions")
       => regional_level' = regional_level + 1
    /\ (call = "process_regions" /\ regional_level <= gid_level
        /\ RegionsShp(regional_level) \in DOMAIN fs)
       => /\ fs' = fs
          /\ printed' = printed
          /\ call' = "process_regions"
    /\ \A l \in 1..gid_level :
         RegionsShp(l) \in DOMAIN fs
         => /\ RegionsShp(l) \in DOMAIN fs'
            /\ fs'[RegionsShp(l)] = fs[RegionsShp(l)]
    /\ (call = "process_regions" /\ C12_AllLevels)
       => /\ fs' = fs
          /\ printed' = printed

\* C12 as amended: process_regions visits the levels 1..gid_level in
\* ascending order; a level whose output file exists is skipped and no
\* existing regions file is ever changed; when the country's directory
\* exists and no write fails, every level has an output file after one call,
\* and a call made when every level has its file writes nothing; when the
\* country's directory does not exist the call raises at os.mkdir and writes
\* no file.
C12_SkipsExistingLevels ==
    /\ []C12_Calls
    /\ [][C12_Step]_vars

\* a second call has returned having skipped every level
C12_Witness ==
    /\ C12_Ended
    /\ last.result = "returned"
    /\ gid_level >= 2
    /\ printed = << >>
    /\ C12_AllLevels

====
